---------------------------- MODULE Spec2Model ----------------------------
(***************************************************************************)
(* Model of src/app.py: the meteorite-landing dashboard script.            *)
(*                                                                         *)
(* load_data (lines 11-42) reads a CSV file and normalises it; the module  *)
(* level code (lines 44-300) derives the year window and runs the tabs.    *)
(* One run of the script is modelled as a program counter walking through  *)
(* the script's statements; Streamlit re-runs the script from the top on   *)
(* every interaction, with the st.cache_data memo of load_data kept.       *)
(*                                                                         *)
(* Text is a tuple of one-character strings, so that strip, lower, split   *)
(* and number parsing are computed character by character.  Floating-point *)
(* values are held in tenths (12.5 is 125): every cell of the modelled     *)
(* input files has at most one decimal digit.                              *)
(***************************************************************************)
EXTENDS Integers, Sequences, FiniteSets, TLC

VARIABLES
    fileExists,     \* os.path.exists(file_path)                  (line 14)
    csv,            \* contents of the file: header and rows of text cells
    cache,          \* the st.cache_data memo of load_data        (line 11)
    errorShown,     \* st.error has put the message on the page   (line 15)
    pc,             \* position of the running script
    df,             \* module-level df                            (line 44)
    error,          \* the exception that ended the run, or "none"
    valid_years,    \* line 51
    last_20_years,  \* line 52
    year,           \* value of the dashboard slider              (line 73)
    year_data,      \* rows of the selected / played year   (lines 74, 116)
    play,           \* the "Play Simulation" checkbox             (line 108)
    idx,            \* position of the for loop in last_20_years  (line 115)
    shown,          \* years the playback placeholder has displayed
    slept,          \* number of time.sleep(speed) calls made     (line 143)
    stage           \* value of the impact-stage slider           (line 181)

vars == <<fileExists, csv, cache, errorShown, pc, df, error, valid_years,
          last_20_years, year, year_data, play, idx, shown, slept, stage>>

-----------------------------------------------------------------------------
(* Bounds of the model and constants of the program *)

\* largest number of rows of a hand-written input table
MaxRows == 2

\* largest number of distinct years of a generated year table
MaxRun == 25

\* cutoff of the year window: y < 2025
YearCutoff == 2025

\* length of the year window: valid_years[-20:], len(valid_years) >= 20
WindowLen == 20

\* st.slider("Choose Impact Stage", 1, 4, 1)
FirstStage == 1

LastStage == 4

-----------------------------------------------------------------------------
(* Values: text, numbers and the missing value *)

\* Python's None
None == [none |-> TRUE]

\* NaN, the missing value of a pandas column
NaN == [nan |-> TRUE]

\* a text cell
Str(s) == [str |-> s]

\* a float64 cell, in tenths
Float(t) == [float |-> t]

\* an int64 cell
Int64(n) == [int |-> n]

IsNaN(c) == "nan" \in DOMAIN c

IsStr(c) == "str" \in DOMAIN c

IsFloat(c) == "float" \in DOMAIN c

IsInt(c) == "int" \in DOMAIN c

Digits == <<"0", "1", "2", "3", "4", "5", "6", "7", "8", "9">>

IsDigit(ch) == \E d \in 1..10 : Digits[d] = ch

DigitValue(ch) == (CHOOSE d \in 1..10 : Digits[d] = ch) - 1

Upper == <<"A", "B", "C", "D", "E", "F", "G", "H", "I", "J", "K", "L", "M",
           "N", "O", "P", "Q", "R", "S", "T", "U", "V", "W", "X", "Y", "Z">>

LowerLetters == <<"a", "b", "c", "d", "e", "f", "g", "h", "i", "j", "k", "l", "m",
                  "n", "o", "p", "q", "r", "s", "t", "u", "v", "w", "x", "y", "z">>

\* str.lower of one character
LowerChar(ch) ==
    IF \E k \in 1..26 : Upper[k] = ch
    THEN LowerLetters[CHOOSE k \in 1..26 : Upper[k] = ch]
    ELSE ch

\* str.lower
Lower(s) == [k \in 1..Len(s) |-> LowerChar(s[k])]

RECURSIVE LStripChars(_, _)
LStripChars(s, chars) ==
    IF s # <<>> /\ Head(s) \in chars THEN LStripChars(Tail(s), chars) ELSE s

RECURSIVE RStripChars(_, _)
RStripChars(s, chars) ==
    IF s # <<>> /\ s[Len(s)] \in chars
    THEN RStripChars(SubSeq(s, 1, Len(s) - 1), chars)
    ELSE s

\* str.strip(chars): leading and trailing characters of the set removed
StripChars(s, chars) == RStripChars(LStripChars(s, chars), chars)

\* str.strip(): leading and trailing whitespace removed
Strip(s) == StripChars(s, {" "})

RECURSIVE SplitFrom(_, _, _)
SplitFrom(s, sep, cur) ==
    IF s = <<>> THEN <<cur>>
    ELSE IF Head(s) = sep THEN <<cur>> \o SplitFrom(Tail(s), sep, <<>>)
    ELSE SplitFrom(Tail(s), sep, Append(cur, Head(s)))

\* str.split(sep): the pieces between the separators
Split(s, sep) == SplitFrom(s, sep, <<>>)

RECURSIVE DigitsValue(_)
DigitsValue(s) ==
    IF s = <<>> THEN 0
    ELSE 10 * DigitsValue(SubSeq(s, 1, Len(s) - 1)) + DigitValue(s[Len(s)])

AllDigits(s) == \A k \in 1..Len(s) : IsDigit(s[k])

\* an unsigned decimal literal: digits, optionally a point and more digits
IsUnsigned(s) ==
    LET p == Split(s, ".")
    IN  /\ Len(p) \in {1, 2}
        /\ AllDigits(p[1])
        /\ Len(p) = 2 => AllDigits(p[2])
        /\ Len(p[1]) + (IF Len(p) = 2 THEN Len(p[2]) ELSE 0) > 0

\* value of an unsigned decimal literal, in tenths
UnsignedTenths(s) ==
    LET p == Split(s, ".")
    IN  10 * DigitsValue(p[1])
          + (IF Len(p) = 2 /\ p[2] # <<>> THEN DigitValue(p[2][1]) ELSE 0)

\* the number a text denotes (surrounding blanks and a sign allowed), or NaN:
\* what pd.to_numeric(errors="coerce") makes of one text cell
ParseNumber(s) ==
    LET t    == Strip(s)
        neg  == t # <<>> /\ Head(t) = "-"
        body == IF t # <<>> /\ Head(t) \in {"-", "+"} THEN Tail(t) ELSE t
    IN  IF IsUnsigned(body)
        THEN Float((IF neg THEN -1 ELSE 1) * UnsignedTenths(body))
        ELSE NaN

\* an integer literal (no decimal point)
IsIntegerText(s) ==
    LET t    == Strip(s)
        body == IF t # <<>> /\ Head(t) \in {"-", "+"} THEN Tail(t) ELSE t
    IN  body # <<>> /\ AllDigits(body)

\* float -> int as astype(int) does it: truncation toward zero
Trunc(t) == IF t >= 0 THEN t \div 10 ELSE -((-t) \div 10)

-----------------------------------------------------------------------------
(* Column names the script looks for *)

lat == <<"l", "a", "t">>

lon == <<"l", "o", "n">>

latitude == <<"l", "a", "t", "i", "t", "u", "d", "e">>

longitude == <<"l", "o", "n", "g", "i", "t", "u", "d", "e">>

geolocation == <<"g", "e", "o", "l", "o", "c", "a", "t", "i", "o", "n">>

reclat == <<"r", "e", "c", "l", "a", "t">>

reclong == <<"r", "e", "c", "l", "o", "n", "g">>

yearcol == <<"y", "e", "a", "r">>

-----------------------------------------------------------------------------
(* The pandas operations load_data uses.  A DataFrame is a record           *)
(* [columns, dtypes, index, rows]: the column names, the dtype of each      *)
(* column, the row labels (row i of the file has label i - 1) and the rows, *)
(* each row a tuple of cells in column order.                               *)

\* texts pd.read_csv reads as a missing value
NAValues == {<<>>, <<"N", "A">>, <<"N", "a", "N">>, <<"n", "a", "n">>}

\* the dtype pd.read_csv infers for a column of text cells
InferDtype(cells) ==
    LET present == {i \in 1..Len(cells) : cells[i] \notin NAValues}
    IN  IF Len(cells) = 0 THEN "object"
        ELSE IF \E i \in present : IsNaN(ParseNumber(cells[i])) THEN "object"
        ELSE IF present = 1..Len(cells) /\ \A i \in present : IsIntegerText(cells[i])
             THEN "int64"
        ELSE "float64"

\* one cell as pd.read_csv stores it in a column of the given dtype
ReadCell(text, dtype) ==
    IF text \in NAValues THEN NaN
    ELSE IF dtype = "object" THEN Str(text)
    ELSE IF dtype = "int64" THEN Int64(Trunc(ParseNumber(text).float))
    ELSE ParseNumber(text)

\* pd.read_csv(file_path): header row kept as written, columns typed
ReadCsv(file) ==
    LET n  == Len(file.header)
        dt == [j \in 1..n |->
                 InferDtype([i \in 1..Len(file.rows) |-> file.rows[i][j]])]
    IN  [columns |-> file.header,
         dtypes  |-> dt,
         index   |-> [i \in 1..Len(file.rows) |-> i - 1],
         rows    |-> [i \in 1..Len(file.rows) |->
                        [j \in 1..n |-> ReadCell(file.rows[i][j], dt[j])]]]

\* name in df.columns
HasCol(d, name) == \E j \in 1..Len(d.columns) : d.columns[j] = name

ColIndex(d, name) == CHOOSE j \in 1..Len(d.columns) : d.columns[j] = name

\* df[name]: the cells of a column, in row order
Column(d, name) ==
    LET j == ColIndex(d, name) IN [i \in 1..Len(d.rows) |-> d.rows[i][j]]

\* df.rename(columns={from: to})
RenameCol(d, from, to) ==
    [d EXCEPT !.columns =
        [j \in 1..Len(d.columns) |-> IF d.columns[j] = from THEN to ELSE d.columns[j]]]

\* df[name] = cells: an existing column is overwritten in place, a new one
\* is appended as the last column
SetCol(d, name, cells, dtype) ==
    IF HasCol(d, name)
    THEN LET j == ColIndex(d, name)
         IN  [d EXCEPT !.dtypes[j] = dtype,
                       !.rows = [i \in 1..Len(d.rows) |->
                                   [d.rows[i] EXCEPT ![j] = cells[i]]]]
    ELSE [columns |-> Append(d.columns, name),
          dtypes  |-> Append(d.dtypes, dtype),
          index   |-> d.index,
          rows    |-> [i \in 1..Len(d.rows) |-> Append(d.rows[i], cells[i])]]

RECURSIVE KeepRows(_, _, _)
\* the positions, from k on, of the rows without a missing value in cols
KeepRows(rows, cols, k) ==
    IF k > Len(rows) THEN <<>>
    ELSE (IF \A j \in cols : ~IsNaN(rows[k][j]) THEN <<k>> ELSE <<>>)
           \o KeepRows(rows, cols, k + 1)

\* df.dropna(subset=names): the rows without a missing value in those
\* columns, with their labels
DropNa(d, names) ==
    LET keep == KeepRows(d.rows, {ColIndex(d, nm) : nm \in names}, 1)
    IN  [d EXCEPT !.rows  = [n \in 1..Len(keep) |-> d.rows[keep[n]]],
                  !.index = [n \in 1..Len(keep) |-> d.index[keep[n]]]]

\* pd.to_numeric(cell, errors="coerce") of one cell
ToNumeric(c) == IF IsStr(c) THEN ParseNumber(c.str) ELSE c

\* astype(int) of one non-missing numeric cell
AsInt(c) == IF IsFloat(c) THEN Int64(Trunc(c.float)) ELSE c

\* the pieces of one geolocation cell: .str.strip("()").str.split(",");
\* a missing cell stays one missing piece
GeoPieces(c) ==
    IF IsStr(c) THEN Split(StripChars(c.str, {"(", ")"}), ",") ELSE <<>>

\* number of columns of .str.split(",", expand=True): the longest row,
\* a missing cell counting as one piece, no column at all without rows
ExpandWidth(cells) ==
    LET len(i) == IF IsStr(cells[i]) THEN Len(GeoPieces(cells[i])) ELSE 1
    IN  IF Len(cells) = 0 THEN 0
        ELSE CHOOSE w \in {len(i) : i \in 1..Len(cells)} :
                 \A i \in 1..Len(cells) : len(i) <= w

\* column k of the expanded split, parsed by pd.to_numeric(errors="coerce"):
\* a row with fewer pieces holds None there, which becomes NaN
GeoNumber(c, k) ==
    IF IsStr(c) /\ k <= Len(GeoPieces(c)) THEN ParseNumber(GeoPieces(c)[k]) ELSE NaN

-----------------------------------------------------------------------------
(* load_data, lines 11-42 *)

\* an exception raised by a statement
Raised(e) == [raised |-> e]

IsRaised(r) == "raised" \in DOMAIN r

IsFrame(r) == "columns" \in DOMAIN r

\* line 21: df.columns = df.columns.str.strip().str.lower()
StandardizeColumns(d) ==
    [d EXCEPT !.columns = [j \in 1..Len(d.columns) |-> Lower(Strip(d.columns[j]))]]

\* lines 29-31: reclat and reclong from the geolocation column.  The .str
\* accessor exists on an object column only, and the two-column assignment
\* needs the expanded split to have exactly two columns.
SplitGeolocation(d) ==
    LET g == Column(d, geolocation)
    IN  IF d.dtypes[ColIndex(d, geolocation)] # "object" THEN Raised("AttributeError")
        ELSE IF ExpandWidth(g) # 2 THEN Raised("ValueError")
        ELSE SetCol(SetCol(d, reclat,
                           [i \in 1..Len(g) |-> GeoNumber(g[i], 1)], "float64"),
                    reclong, [i \in 1..Len(g) |-> GeoNumber(g[i], 2)], "float64")

\* lines 24-31: the first coordinate shape that matches, or none
ResolveCoordinates(d) ==
    IF HasCol(d, lat) /\ HasCol(d, lon)
    THEN RenameCol(RenameCol(d, lat, reclat), lon, reclong)
    ELSE IF HasCol(d, latitude) /\ HasCol(d, longitude)
    THEN RenameCol(RenameCol(d, latitude, reclat), longitude, reclong)
    ELSE IF HasCol(d, geolocation)
    THEN SplitGeolocation(d)
    ELSE d

\* line 34 with the subset cut down to reclat: a missing reclong is kept
DropMissingCoordinates_LatOnly(d) ==
    IF HasCol(d, reclat) /\ HasCol(d, reclong)
    THEN DropNa(d, {reclat})
    ELSE Raised("KeyError")

\* line 34: df.dropna(subset=["reclat", "reclong"]); a name that is no
\* column raises KeyError
DropMissingCoordinates(d) ==
    IF HasCol(d, reclat) /\ HasCol(d, reclong)
    THEN DropNa(d, {reclat, reclong})
    ELSE Raised("KeyError")

\* lines 37-40 without the dropna of line 39: a year that is no number stays
FixYear_KeepsMissing(d) ==
    IF HasCol(d, yearcol)
    THEN LET y == Column(d, yearcol)
         IN  SetCol(d, yearcol, [i \in 1..Len(y) |-> AsInt(ToNumeric(y[i]))], "int64")
    ELSE d

\* lines 37-40: year parsed, rows without a year dropped, year made int
FixYear(d) ==
    IF HasCol(d, yearcol)
    THEN LET y  == Column(d, yearcol)
             d1 == SetCol(d, yearcol, [i \in 1..Len(y) |-> ToNumeric(y[i])], "float64")
             d2 == DropNa(d1, {yearcol})
             y2 == Column(d2, yearcol)
         IN  SetCol(d2, yearcol, [i \in 1..Len(y2) |-> AsInt(y2[i])], "int64")
    ELSE d

\* lines 20-42: the normalisation of a DataFrame, a DataFrame or an exception
Normalize(d) ==
    LET c == ResolveCoordinates(StandardizeColumns(d))
        k == IF IsRaised(c) THEN c ELSE DropMissingCoordinates(c)
    IN  IF IsRaised(k) THEN k ELSE FixYear(k)

\* lines 12-42: None when the file is missing
load_data(exists, file) ==
    IF ~exists THEN None ELSE Normalize(ReadCsv(file))

-----------------------------------------------------------------------------
(* The year window, lines 51-52 *)

RECURSIVE UniqueFrom(_, _)
UniqueFrom(s, seen) ==
    IF s = <<>> THEN <<>>
    ELSE IF Head(s) \in seen THEN UniqueFrom(Tail(s), seen)
    ELSE <<Head(s)>> \o UniqueFrom(Tail(s), seen \cup {Head(s)})

\* Series.unique(): the distinct values in order of first appearance
Unique(s) == UniqueFrom(s, {})

RECURSIVE Insert(_, _)
Insert(s, x) ==
    IF s = <<>> THEN <<x>>
    ELSE IF x < Head(s) THEN <<x>> \o s
    ELSE <<Head(s)>> \o Insert(Tail(s), x)

RECURSIVE Sorted(_)
\* sorted(list): ascending
Sorted(s) == IF s = <<>> THEN <<>> ELSE Insert(Sorted(Tail(s)), Head(s))

\* df["year"] as Python integers
Years(d) == LET y == Column(d, yearcol) IN [i \in 1..Len(y) |-> y[i].int]

BelowCutoff(y) == y < YearCutoff

\* line 51: sorted([y for y in df["year"].unique() if y < 2025])
ValidYears(d) == Sorted(SelectSeq(Unique(Years(d)), BelowCutoff))

\* line 52 with the slice taken from the front: valid_years[:20]
Last20_First(v) ==
    IF Len(v) >= WindowLen THEN SubSeq(v, 1, WindowLen) ELSE v

\* line 52: valid_years[-20:] if len(valid_years) >= 20 else valid_years
Last20(v) ==
    IF Len(v) >= WindowLen THEN SubSeq(v, Len(v) - WindowLen + 1, Len(v)) ELSE v

RECURSIVE RowsOfYear(_, _, _, _)
RowsOfYear(rows, j, y, k) ==
    IF k > Len(rows) THEN <<>>
    ELSE (IF rows[k][j] = Int64(y) THEN <<rows[k]>> ELSE <<>>)
           \o RowsOfYear(rows, j, y, k + 1)

\* lines 74 and 116: df[df["year"] == y], the rows of one year
YearData(d, y) == RowsOfYear(d.rows, ColIndex(d, yearcol), y, 1)

\* min and max of a non-empty list
Min(s) == CHOOSE m \in {s[i] : i \in 1..Len(s)} : \A i \in 1..Len(s) : m <= s[i]

Max(s) == CHOOSE m \in {s[i] : i \in 1..Len(s)} : \A i \in 1..Len(s) : s[i] <= m

-----------------------------------------------------------------------------
(* The input files of the model *)

RECURSIVE ToText(_)
\* the decimal text of a natural number
ToText(n) == IF n < 10 THEN <<Digits[n + 1]>> ELSE Append(ToText(n \div 10), Digits[(n % 10) + 1])

\* coordinate cells
tLat == <<"1", "2", ".", "5">>

tLon == <<"-", "7", "0", ".", "3">>

tAbc == <<"a", "b", "c">>

tEmpty == <<>>

\* geolocation cells: "(12.5, -70.3)", "(abc, -70.3)", "(1,2,3)", "(1.0, 2.0)"
tGeo == <<"(", "1", "2", ".", "5", ",", " ", "-", "7", "0", ".", "3", ")">>

tGeoAbc == <<"(", "a", "b", "c", ",", " ", "-", "7", "0", ".", "3", ")">>

tGeoThree == <<"(", "1", ",", "2", ",", "3", ")">>

tGeoOther == <<"(", "1", ".", "0", ",", " ", "2", ".", "0", ")">>

\* year cells: "2001", "1998.7", "2030"
tYear == <<"2", "0", "0", "1">>

tYearFrac == <<"1", "9", "9", "8", ".", "7">>

tYearLate == <<"2", "0", "3", "0">>

\* the cells of a year column: a year, a fractional year, a year past the
\* cutoff, a text that is no number, a missing value
YearCells == {tYear, tYearFrac, tYearLate, tAbc, tEmpty}

PairCells == {<<tLat, tLon>>, <<tAbc, tLon>>, <<tEmpty, tLon>>, <<tLat, tEmpty>>}

\* the coordinate shapes of the input files: the header as written in the
\* file, the rows of coordinate cells a file of the shape may hold, and one
\* row of well-formed coordinates
Shapes == {
    [header |-> <<lat, lon>>, cells |-> PairCells, good |-> <<tLat, tLon>>],
    [header |-> << <<" ", "L", "a", "t", " ">>, <<"L", "O", "N">> >>,
     cells |-> PairCells, good |-> <<tLat, tLon>>],
    [header |-> << <<"L", "a", "t", "i", "t", "u", "d", "e">>,
                   <<"L", "o", "n", "g", "i", "t", "u", "d", "e">> >>,
     cells |-> PairCells, good |-> <<tLat, tLon>>],
    [header |-> << <<"G", "e", "o", "L", "o", "c", "a", "t", "i", "o", "n">> >>,
     cells |-> {<<tGeo>>, <<tGeoAbc>>, <<tGeoThree>>, <<tLat>>, <<tEmpty>>},
     good |-> <<tGeo>>],
    [header |-> <<lat, lon, geolocation>>,
     cells |-> {<<tLat, tLon, tGeoOther>>, <<tLat, tLon, tGeoAbc>>,
                <<tEmpty, tLon, tGeo>>},
     good |-> <<tLat, tLon, tGeoOther>>],
    [header |-> <<reclat, reclong>>, cells |-> PairCells, good |-> <<tLat, tLon>>],
    [header |-> << <<"n", "a", "m", "e">> >>,
     cells |-> {<<tAbc>>, <<tEmpty>>}, good |-> <<tAbc>>]
}

\* the rows of a file of a shape: without a year column the coordinate
\* cells; with one, each coordinate row with a good year and the good
\* coordinates with each year cell
ShapeRows(sh, withYear) ==
    IF withYear
    THEN {Append(c, tYear) : c \in sh.cells} \cup {Append(sh.good, y) : y \in YearCells}
    ELSE sh.cells

ShapeHeader(sh, withYear) ==
    IF withYear THEN Append(sh.header, <<"Y", "e", "a", "r", " ">>) ELSE sh.header

\* hand-written files: every shape, with and without a year column, with
\* up to MaxRows rows
SmallFiles ==
    UNION {UNION {{[header |-> ShapeHeader(sh, wy), rows |-> r] :
                      r \in UNION {[1..n -> ShapeRows(sh, wy)] : n \in 0..MaxRows}} :
                  wy \in BOOLEAN} :
           sh \in Shapes}

\* generated files for the year window: n different years counted down
\* from a top year, every year on one row or on two
RunFile(top, n, twice) ==
    LET rowOf(k) == <<tLat, tLon, ToText(top - (IF twice THEN (k - 1) \div 2 ELSE k - 1))>>
    IN  [header |-> <<reclat, reclong, yearcol>>,
         rows   |-> [k \in 1..(IF twice THEN 2 * n ELSE n) |-> rowOf(k)]]

RunFiles ==
    {RunFile(top, n, twice) : top \in {YearCutoff - 1, YearCutoff + 2},
                              n \in 1..MaxRun, twice \in BOOLEAN}

\* the file with the years 1998, 2001, 2001, 2010, 2030
ExampleFile ==
    [header |-> <<reclat, reclong, yearcol>>,
     rows   |-> <<
        <<tLat, tLon, ToText(1998)>>, <<tLat, tLon, ToText(2001)>>,
        <<tLat, tLon, ToText(2001)>>, <<tLat, tLon, ToText(2010)>>,
        <<tLat, tLon, ToText(2030)>> >>]

Files == SmallFiles \cup RunFiles \cup {ExampleFile}

-----------------------------------------------------------------------------
(* The run of the script *)

\* a name that has not been assigned in this run
Unset == [unset |-> TRUE]

\* the memo of load_data holds no entry
NoEntry == [miss |-> TRUE]

\* the module-level names at the start of a run
FreshRun ==
    /\ df = Unset
    /\ errorShown = FALSE
    /\ error = "none"
    /\ valid_years = <<>>
    /\ last_20_years = <<>>
    /\ year = 0
    /\ year_data = <<>>
    /\ play = FALSE
    /\ idx = 0
    /\ shown = <<>>
    /\ slept = 0
    /\ stage = 0

Init ==
    /\ fileExists \in BOOLEAN
    /\ csv \in (IF fileExists THEN Files ELSE {None})
    /\ cache = NoEntry
    /\ pc = "load"
    /\ FreshRun

\* a statement raises: the run ends with the exception on the page
Raise(e) == pc' = "error" /\ error' = e

\* line 44, df = load_data(): the memoised result when there is one, else
\* the call, whose result is memoised unless it raises
LoadData ==
    /\ pc = "load"
    /\ IF "value" \in DOMAIN cache
       THEN /\ df' = cache.value
            /\ errorShown' = (cache.value = None)
            /\ pc' = "check"
            /\ UNCHANGED <<cache, error>>
       ELSE LET r == load_data(fileExists, csv)
            IN  IF IsRaised(r)
                THEN Raise(r.raised) /\ UNCHANGED <<cache, df, errorShown>>
                ELSE /\ df' = r
                     /\ cache' = [value |-> r]
                     /\ errorShown' = ~fileExists
                     /\ pc' = "check"
                     /\ UNCHANGED error
    /\ UNCHANGED <<fileExists, csv, valid_years, last_20_years, year, year_data,
                   play, idx, shown, slept, stage>>

\* lines 45-46 without the st.stop(): the run goes on with df = None
StopIfNone_NoStop ==
    /\ pc = "check"
    /\ pc' = "window"
    /\ UNCHANGED <<fileExists, csv, cache, errorShown, df, error, valid_years,
                   last_20_years, year, year_data, play, idx, shown, slept, stage>>

\* lines 45-46: if df is None: st.stop()
StopIfNone ==
    /\ pc = "check"
    /\ pc' = IF df = None THEN "stopped" ELSE "window"
    /\ UNCHANGED <<fileExists, csv, cache, errorShown, df, error, valid_years,
                   last_20_years, year, year_data, play, idx, shown, slept, stage>>

\* lines 51-52: df["year"] raises KeyError when there is no such column
YearWindow ==
    /\ pc = "window"
    /\ IF HasCol(df, yearcol)
       THEN /\ valid_years' = ValidYears(df)
            /\ last_20_years' = Last20(ValidYears(df))
            /\ pc' = "tab1"
            /\ UNCHANGED error
       ELSE Raise("KeyError") /\ UNCHANGED <<valid_years, last_20_years>>
    /\ UNCHANGED <<fileExists, csv, cache, errorShown, df, year, year_data,
                   play, idx, shown, slept, stage>>

\* lines 70-100, the dashboard tab: min() and max() of an empty list raise
\* ValueError; the slider gives a year between the two
DashboardTab ==
    /\ pc = "tab1"
    /\ IF last_20_years = <<>>
       THEN Raise("ValueError") /\ UNCHANGED <<year, year_data>>
       ELSE /\ \E v \in Min(last_20_years)..Max(last_20_years) :
                  /\ year' = v
                  /\ year_data' = YearData(df, v)
            /\ pc' = "tab2"
            /\ UNCHANGED error
    /\ UNCHANGED <<fileExists, csv, cache, errorShown, df, valid_years,
                   last_20_years, play, idx, shown, slept, stage>>

\* lines 105-114 and 144-145, the simulation tab up to the loop: the
\* checkbox decides whether the playback loop runs
SimulationTab ==
    /\ pc = "tab2"
    /\ \E p \in BOOLEAN :
          /\ play' = p
          /\ pc' = IF p THEN "loop" ELSE "tab4"
    /\ idx' = 1
    /\ UNCHANGED <<fileExists, csv, cache, errorShown, df, error, valid_years,
                   last_20_years, year, year_data, shown, slept, stage>>

\* lines 115-142, one pass of the loop body up to the sleep: the rows of
\* the next year of the window are put in the placeholder
PlaybackShow ==
    /\ pc = "loop"
    /\ idx <= Len(last_20_years)
    /\ year_data' = YearData(df, last_20_years[idx])
    /\ shown' = Append(shown, last_20_years[idx])
    /\ pc' = "sleep"
    /\ UNCHANGED <<fileExists, csv, cache, errorShown, df, error, valid_years,
                   last_20_years, year, play, idx, slept, stage>>

\* line 143 with the loop stepping over a year of the window
PlaybackSleep_SkipsYear ==
    /\ pc = "sleep"
    /\ slept' = slept + 1
    /\ idx' = idx + 2
    /\ pc' = "loop"
    /\ UNCHANGED <<fileExists, csv, cache, errorShown, df, error, valid_years,
                   last_20_years, year, year_data, play, shown, stage>>

\* line 143: time.sleep(speed), then the loop takes the next year
PlaybackSleep ==
    /\ pc = "sleep"
    /\ slept' = slept + 1
    /\ idx' = idx + 1
    /\ pc' = "loop"
    /\ UNCHANGED <<fileExists, csv, cache, errorShown, df, error, valid_years,
                   last_20_years, year, year_data, play, shown, stage>>

\* line 115: the window is exhausted, the loop ends
PlaybackEnd ==
    /\ pc = "loop"
    /\ idx > Len(last_20_years)
    /\ pc' = "tab4"
    /\ UNCHANGED <<fileExists, csv, cache, errorShown, df, error, valid_years,
                   last_20_years, year, year_data, play, idx, shown, slept, stage>>

\* lines 177-300, the impact tab: the stage slider picks one of the stages
\* (the gallery, the facts and the credits are fixed content); the run ends
ImpactTab ==
    /\ pc = "tab4"
    /\ \E s \in FirstStage..LastStage : stage' = s
    /\ pc' = "done"
    /\ UNCHANGED <<fileExists, csv, cache, errorShown, df, error, valid_years,
                   last_20_years, year, year_data, play, idx, shown, slept>>

\* an interaction after the run has ended: Streamlit runs the script again
\* from the top, in a fresh namespace, with the memo of load_data kept
Rerun ==
    /\ pc \in {"done", "stopped", "error"}
    /\ pc' = "load"
    /\ df' = Unset
    /\ errorShown' = FALSE
    /\ error' = "none"
    /\ valid_years' = <<>>
    /\ last_20_years' = <<>>
    /\ year' = 0
    /\ year_data' = <<>>
    /\ play' = FALSE
    /\ idx' = 0
    /\ shown' = <<>>
    /\ slept' = 0
    /\ stage' = 0
    /\ UNCHANGED <<fileExists, csv, cache>>

Next ==
    \/ LoadData
    \/ StopIfNone
    \/ YearWindow
    \/ DashboardTab
    \/ SimulationTab
    \/ PlaybackShow
    \/ PlaybackSleep
    \/ PlaybackEnd
    \/ ImpactTab
    \/ Rerun

Spec == Init /\ [][Next]_vars

\* the script runs on one thread that is never descheduled for good: once
\* the playback loop is entered, its next statement is eventually executed
FairSpec ==
    Spec /\ WF_vars(PlaybackShow) /\ WF_vars(PlaybackSleep) /\ WF_vars(PlaybackEnd)

-----------------------------------------------------------------------------
(* Properties *)

\* the header of the file as line 21 standardises it
StdHeader == [j \in 1..Len(csv.header) |-> Lower(Strip(csv.header[j]))]

InHeader(name) == fileExists /\ \E j \in 1..Len(csv.header) : StdHeader[j] = name

HeaderIndex(name) == CHOOSE j \in 1..Len(csv.header) : StdHeader[j] = name

\* the text of a cell of the file
Text(i, name) == csv.rows[i][HeaderIndex(name)]

IsNumberText(t) == ~IsNaN(ParseNumber(t))

\* the labels of the rows of a DataFrame
Labels(d) == {d.index[n] : n \in 1..Len(d.index)}

\* the cell of row n of a DataFrame in the named column
Cell(d, n, name) == d.rows[n][ColIndex(d, name)]

HasLatLon == InHeader(lat) /\ InHeader(lon)

HasLatitudeLongitude == InHeader(latitude) /\ InHeader(longitude)

\* the file matches none of the three coordinate shapes
NoShape == fileExists /\ ~HasLatLon /\ ~HasLatitudeLongitude /\ ~InHeader(geolocation)

\* the file's coordinates come from its geolocation column
GeoShape == fileExists /\ ~HasLatLon /\ ~HasLatitudeLongitude /\ InHeader(geolocation)

Ascending(s) == \A i, j \in 1..Len(s) : i < j => s[i] < s[j]

Elements(s) == {s[i] : i \in 1..Len(s)}

\* the years of the Dataset below the cutoff
Qualifying == LET ys == Years(df) IN {y \in Elements(ys) : y < YearCutoff}

\* the run has executed lines 51-52
WindowDerived ==
    IsFrame(df) /\ HasCol(df, yearcol) /\ pc \notin {"load", "check", "window"}

\* C1: when the input file does not exist, load_data surfaces the error
\* message and returns None, and the run halts at st.stop(): in no run of
\* the session is the year window derived, the dashboard slider or the
\* playback or the stage slider reached, and no exception is raised.
C1_MissingFileHalts ==
    ~fileExists =>
        /\ pc \in {"load", "check", "stopped"}
        /\ pc = "load" => df = Unset
        /\ pc \in {"check", "stopped"} => df = None /\ errorShown
        /\ error = "none"
        /\ valid_years = <<>> /\ last_20_years = <<>>
        /\ year = 0 /\ year_data = <<>>
        /\ ~play /\ idx = 0 /\ shown = <<>> /\ slept = 0
        /\ stage = 0

C1_Witness ==
    ~fileExists /\ pc = "stopped" /\ df = None /\ errorShown /\ cache = [value |-> None]

\* C2 as stated: for every input table, every record of the returned
\* Dataset has a non-null reclat, a non-null reclong and a non-null integer
\* year.
C2_EveryRecordHasYear ==
    IsFrame(df) =>
        \A n \in 1..Len(df.rows) :
            /\ HasCol(df, reclat) /\ ~IsNaN(Cell(df, n, reclat))
            /\ HasCol(df, reclong) /\ ~IsNaN(Cell(df, n, reclong))
            /\ HasCol(df, yearcol) /\ IsInt(Cell(df, n, yearcol))

\* C2 amended: every record of the returned Dataset has a non-null reclat
\* and a non-null reclong and, when the input table has a year column, a
\* non-null integer year; without a year column the records have no year.
C2_RecordsComplete ==
    IsFrame(df) =>
        /\ HasCol(df, reclat) /\ HasCol(df, reclong)
        /\ HasCol(df, yearcol) <=> InHeader(yearcol)
        /\ \A n \in 1..Len(df.rows) :
              /\ ~IsNaN(Cell(df, n, reclat))
              /\ ~IsNaN(Cell(df, n, reclong))
              /\ HasCol(df, yearcol) => IsInt(Cell(df, n, yearcol))

C2_Witness ==
    /\ IsFrame(df) /\ HasCol(df, yearcol)
    /\ df.rows # <<>>
    /\ Len(df.rows) < Len(csv.rows)
    /\ \E i \in 1..Len(csv.rows) : ~IsNumberText(Text(i, yearcol))

\* the columns that held lat and lon are named reclat and reclong
LatLonRenamed ==
    /\ df.columns[HeaderIndex(lat)] = reclat
    /\ df.columns[HeaderIndex(lon)] = reclong
    /\ ~HasCol(df, lat) /\ ~HasCol(df, lon)

KeptRow(i) ==
    /\ Text(i, lat) \notin NAValues
    /\ Text(i, lon) \notin NAValues
    /\ InHeader(yearcol) => IsNumberText(Text(i, yearcol))

C4_NoShapeGivesEmptyDataset ==
    (NoShape /\ pc # "load") => (IsFrame(df) /\ df.rows = <<>>)

\* C5: the year window is ascending and duplicate-free, holds only years
\* of the Dataset below 2025, holds all of them when there are at most 20
\* and otherwise the 20 largest; 25 different qualifying years give exactly
\* the largest 20, and the years 1998, 2001, 2001, 2010, 2030 give
\* 1998, 2001, 2010.
C5_YearWindow ==
    WindowDerived =>
        LET q == Qualifying
            w == Elements(last_20_years)
        IN
        /\ Ascending(last_20_years)
        /\ w \subseteq q
        /\ Len(last_20_years) =
              (IF Cardinality(q) > WindowLen THEN WindowLen ELSE Cardinality(q))
        /\ \A a \in w : \A b \in q \ w : b < a
        /\ csv = ExampleFile => last_20_years = <<1998, 2001, 2010>>
        /\ csv = RunFile(YearCutoff - 1, 25, FALSE) =>
              last_20_years = [k \in 1..WindowLen |-> YearCutoff - 1 - WindowLen + k]

C5_Witness ==
    /\ WindowDerived
    /\ Cardinality(Qualifying) = 25
    /\ Len(last_20_years) = WindowLen
    /\ Elements(valid_years) \ Elements(last_20_years) # {}

\* C6: when the Dataset (of a table with a year column) has no row, or no
\* year below 2025, the year window is empty and the run goes on without
\* an error.
C6_EmptyWindowNoError ==
    (IsFrame(df) /\ HasCol(df, yearcol) /\ Qualifying = {}) =>
        /\ WindowDerived => last_20_years = <<>>
        /\ pc # "error"

\* C7: when the input table has no year column, load_data returns a
\* Dataset without a year field and no step after the load raises.
C7_NoYearColumnNoError ==
    (fileExists /\ ~InHeader(yearcol) /\ IsFrame(df)) =>
        /\ ~HasCol(df, yearcol)
        /\ pc # "error"

\* C8: normalisation is idempotent: lines 20-42 applied to a (non-empty)
\* Dataset that load_data returned give the same Dataset back.
C8_NormalizeIdempotent ==
    (IsFrame(df) /\ df.rows # <<>>) => Normalize(df) = df

\* the geolocation cell of row i of the file is present and does not split
\* into exactly two comma-separated pieces
BadSplit(i) ==
    /\ Text(i, geolocation) \notin NAValues
    /\ Len(Split(StripChars(Text(i, geolocation), {"(", ")"}), ",")) # 2

\* C9: a malformed geolocation value never makes load_data fail: a value
\* that does not split into exactly two pieces, or whose latitude is not a
\* number, has its row dropped and the other rows are returned, and
\* "(12.5, -70.3)" gives reclat 12.5 and reclong -70.3.
C9_MalformedGeolocationDropped ==
    (GeoShape /\ pc # "load" /\ \E i \in 1..Len(csv.rows) : BadSplit(i)) =>
        /\ IsFrame(df)
        /\ \A i \in 1..Len(csv.rows) :
              /\ BadSplit(i) => (i - 1) \notin Labels(df)
              /\ Text(i, geolocation) = tGeoAbc => (i - 1) \notin Labels(df)
        /\ \A n \in 1..Len(df.rows) :
              Cell(df, n, geolocation) = Str(tGeo) =>
                  Cell(df, n, reclat) = Float(125) /\ Cell(df, n, reclong) = Float(-703)

\* what holds of the playback at every point of a run
PlaybackState ==
    /\ shown = SubSeq(last_20_years, 1, Len(shown))
    /\ Ascending(shown)
    /\ ~play => shown = <<>> /\ slept = 0
    /\ (play /\ pc = "loop") => Len(shown) = idx - 1 /\ slept = idx - 1
    /\ (play /\ pc = "sleep") => Len(shown) = idx /\ slept = idx - 1
    /\ (play /\ pc \in {"tab4", "done"}) =>
          shown = last_20_years /\ slept = Len(last_20_years)
    /\ pc \in {"loop", "sleep"} => df = cache.value

\* while the loop runs no widget changes and the Dataset stays as it is
PlaybackBlocks ==
    pc \in {"loop", "sleep"} =>
        /\ pc' \in {"loop", "sleep", "tab4"}
        /\ <<year, play, stage, df, cache, last_20_years>>' =
              <<year, play, stage, df, cache, last_20_years>>

=============================================================================
